---- MODULE Spec2Model ----
(***************************************************************************)
(* ConversaPlay: the time-synchronised transcript player of the widget     *)
(* with tag triggers (class ConversaPlay and the page's tab switching).    *)
(*                                                                         *)
(* Time is counted in tenths of a second (every timestamp of the shipped   *)
(* data is a multiple of 0.1 s), so the end-of-media margin 0.1 s is one   *)
(* unit.  A media time that is not a whole number of tenths is kept as its *)
(* floor: every comparison the code makes is against a whole number of     *)
(* tenths, for which floor(x) >= k iff x >= k.                             *)
(* List indices are 1-based here (JavaScript index i is i + 1).            *)
(*                                                                         *)
(* The browser is modelled as far as the code depends on it: the media     *)
(* element (HTMLMediaElement: paused, currentTime, readyState, its event   *)
(* task queue), the animation-frame callback list, timers, the wall clock. *)
(***************************************************************************)
EXTENDS Integers, Sequences, FiniteSets, TLC

(* ------------------------------------------------------------------ *)
(* Bounds of the model                                                 *)
(* ------------------------------------------------------------------ *)
\* media events that may wait in the media element task queue
MaxEvents == 2
\* animation-frame callbacks that may wait at once
MaxRaf == 3
\* show-panel timers that may wait at once
MaxTimers == 1
\* track switches in one run
MaxSwitches == 1

(* ------------------------------------------------------------------ *)
(* Values of JavaScript                                                *)
(* ------------------------------------------------------------------ *)
\* the number NaN (0/0, the duration of a media element without metadata)
NaN == -1
\* the number Infinity (x/0 for x > 0)
Infinity == 9999
\* null (no animation frame id, no last message element)
Null == 0
NoType == "null"

Min(a, b) == IF a < b THEN a ELSE b
Max(a, b) == IF a > b THEN a ELSE b
Clamp(x, lo, hi) == Max(lo, Min(hi, x))

(* ------------------------------------------------------------------ *)
(* Track data: the conversations and tag triggers of the tabs          *)
(* ------------------------------------------------------------------ *)
\* conversations[tab].conversation: utterances {type, text, timestamp}, each
\* text distinct, so a rendered text tells its track.  Like the shipped
\* data each list is sorted by timestamp and starts with an 'ai' line at 0.
conversations ==
    [tab1 |-> [conversation |->
                  << [type |-> "ai",   text |-> "a1", timestamp |-> 0],
                     [type |-> "ai",   text |-> "a2", timestamp |-> 1],
                     [type |-> "user", text |-> "a3", timestamp |-> 2],
                     [type |-> "ai",   text |-> "a4", timestamp |-> 3] >>,
               audio |-> "tab1"],
     tab2 |-> [conversation |->
                  << [type |-> "ai",   text |-> "b1", timestamp |-> 0],
                     [type |-> "user", text |-> "b2", timestamp |-> 1] >>,
               audio |-> "tab2"]]

\* this.tagTriggers: per tab the triggers {timestamp, tag}, the tag standing
\* for its {type, label, description}; the list of tab1
\* is not sorted by timestamp (shipped: 0.5, 12.5, 33, 25, 52, 61.5), one list
\* starts at 0 (shipped tab3).
tagTriggers ==
    [tab1 |-> << [timestamp |-> 1, tag |-> "greeting1"],
                 [timestamp |-> 3, tag |-> "lead-intake1"],
                 [timestamp |-> 2, tag |-> "probing1"] >>,
     tab2 |-> << [timestamp |-> 0, tag |-> "greeting2"] >>]

Tabs == DOMAIN conversations

\* audio.duration of the media resource of a tab, once its metadata is known
MediaDuration(src) == IF src = "tab1" THEN 5 ELSE 2

\* the end-of-media margin: currentTime >= duration - 0.1
EndEps == 1
\* the throttle of updateMessages: 16 ms
ThrottleMs == 16

(* ------------------------------------------------------------------ *)
(* State                                                               *)
(* ------------------------------------------------------------------ *)
VARIABLES
    conversation,         \* this.conversation: the active utterance list
    currentTabTriggers,   \* this.currentTabTriggers: the active tag triggers
    audio,                \* this.audio: the active media element
    renderedMessages,     \* this.renderedMessages: Set of utterance indices
    renderedTags,         \* this.renderedTags: Set of trigger indices
    isDragging,           \* this.isDragging
    duration,             \* this.duration (0 until loadedmetadata)
    sinceLastRender,      \* performance.now() - this.lastRenderTime, in ms,
                          \* kept up to ThrottleMs (the code only asks < 16)
    animationFrameId,     \* this.animationFrameId (Null or a frame id)
    hasEnded,             \* this.hasEnded
    lastMessageElement,   \* this.lastMessageElement: Null or the position of
                          \* the block in conversationWindow
    lastMessageType,      \* this.lastMessageType
    conversationWindow,   \* children of #conversationWindow: the blocks
    tagsContent,          \* children of #tagsContent: the tag badges
    tagsContainerOpacity, \* #tagsContainer style.opacity (0 hidden, 1 shown)
    progressFill,         \* #progressFill style.width, in percent
    playIcon,             \* which of #playIcon / #pauseIcon is displayed
    rafCallbacks,         \* the browser's list of animation frame callbacks
    mediaEvents,          \* media events queued and not yet dispatched
    panelTimers,          \* pending setTimeout callbacks of showTag (300 ms)
    oldLoading,           \* a replaced media element is still fetching metadata
    switches,             \* track switches so far
    recording,            \* whether this run keeps the history endHistory
    endHistory            \* history of the active track: "none" (handleAudioEnd
                          \* never ran), "ended" (it ran last), "sought"
                          \* (seekToTime ran since, restartConversation did
                          \* not), "restarted" (restartConversation ran since)

vars == << conversation, currentTabTriggers, audio, renderedMessages,
           renderedTags, isDragging, duration, sinceLastRender,
           animationFrameId, hasEnded, lastMessageElement, lastMessageType,
           conversationWindow, tagsContent, tagsContainerOpacity, progressFill,
           playIcon, rafCallbacks, mediaEvents, panelTimers, oldLoading,
           switches, recording, endHistory >>

\* the state as a record, on which the methods below work
St ==
    [conversation |-> conversation, currentTabTriggers |-> currentTabTriggers,
     audio |-> audio, renderedMessages |-> renderedMessages,
     renderedTags |-> renderedTags, isDragging |-> isDragging,
     duration |-> duration, sinceLastRender |-> sinceLastRender,
     animationFrameId |-> animationFrameId, hasEnded |-> hasEnded,
     lastMessageElement |-> lastMessageElement,
     lastMessageType |-> lastMessageType,
     conversationWindow |-> conversationWindow, tagsContent |-> tagsContent,
     tagsContainerOpacity |-> tagsContainerOpacity,
     progressFill |-> progressFill, playIcon |-> playIcon,
     rafCallbacks |-> rafCallbacks, mediaEvents |-> mediaEvents,
     panelTimers |-> panelTimers, oldLoading |-> oldLoading,
     switches |-> switches,
     endHistory |-> endHistory]

(* ------------------------------------------------------------------ *)
(* The media element (HTMLMediaElement)                                *)
(* ------------------------------------------------------------------ *)
\* new Audio(src): paused at 0, no metadata yet
NewAudio(src) ==
    [src |-> src, currentTime |-> 0, paused |-> TRUE, readyState |-> "nothing"]

\* queue a media event; an event equal to the last queued one is not doubled
\* (two equal events in a row run the same handler on the same state)
Enqueue(q, type) ==
    IF Len(q) > 0 /\ q[Len(q)] = [type |-> type, stale |-> FALSE]
    THEN q ELSE Append(q, [type |-> type, stale |-> FALSE])

\* audio.duration: NaN until the metadata is known
AudioDuration(a) ==
    IF a.readyState = "metadata" THEN MediaDuration(a.src) ELSE NaN

\* audio.pause(): pausing a playing element queues timeupdate (and pause)
AudioPause(s) ==
    IF s.audio.paused THEN s
    ELSE [s EXCEPT !.audio.paused = TRUE,
                   !.mediaEvents = Enqueue(@, "timeupdate")]

\* audio.play(): rejected when the resource failed to load; an element that
\* ended playback first seeks back to the start
AudioPlay(s) ==
    IF s.audio.readyState = "error" THEN s
    ELSE IF /\ s.audio.readyState = "metadata"
            /\ s.audio.currentTime = MediaDuration(s.audio.src)
         THEN [s EXCEPT !.audio.paused = FALSE, !.audio.currentTime = 0,
                        !.mediaEvents = Enqueue(@, "timeupdate")]
         ELSE [s EXCEPT !.audio.paused = FALSE]

\* audio.currentTime = t: a seek (clamped to the resource, followed by
\* timeupdate); without metadata it only sets the default start position
AudioSetCurrentTime(s, t) ==
    IF s.audio.readyState = "metadata"
    THEN [s EXCEPT !.audio.currentTime = Clamp(t, 0, MediaDuration(s.audio.src)),
                   !.mediaEvents = Enqueue(@, "timeupdate")]
    ELSE [s EXCEPT !.audio.currentTime = Max(t, 0)]

\* requestAnimationFrame returns an id that no waiting callback has
FreshId(s) ==
    CHOOSE i \in 1..(MaxRaf + 3) :
        /\ i # s.animationFrameId
        /\ \A k \in 1..Len(s.rafCallbacks) : s.rafCallbacks[k].id # i
        /\ \A j \in 1..(i - 1) :
              \/ j = s.animationFrameId
              \/ \E k \in 1..Len(s.rafCallbacks) : s.rafCallbacks[k].id = j

\* cancelAnimationFrame(id)
CancelFrame(q, id) == SelectSeq(q, LAMBDA cb : cb.id # id)

(* ------------------------------------------------------------------ *)
(* ConversaPlay: playback control                                      *)
(* ------------------------------------------------------------------ *)
\* a faulty stopAnimationLoop: the id is forgotten, the frame not cancelled
stopAnimationLoopNoCancel(s) == [s EXCEPT !.animationFrameId = Null]

\* stopAnimationLoop(): cancel the waiting frame of the loop
stopAnimationLoop(s) ==
    IF s.animationFrameId # Null
    THEN [s EXCEPT !.rafCallbacks = CancelFrame(@, s.animationFrameId),
                   !.animationFrameId = Null]
    ELSE s

\* a faulty startAnimationLoop: a frame is requested also when a loop is active
startAnimationLoopAgain(s) ==
    [s EXCEPT !.rafCallbacks =
                  Append(@, [id |-> FreshId(s), fn |-> "animate",
                             stale |-> FALSE]),
              !.animationFrameId = FreshId(s)]

\* startAnimationLoop(): nothing if a loop is active, else request animate
startAnimationLoop(s) ==
    IF s.animationFrameId # Null THEN s
    ELSE [s EXCEPT !.rafCallbacks =
                       Append(@, [id |-> FreshId(s), fn |-> "animate",
                                  stale |-> FALSE]),
                   !.animationFrameId = FreshId(s)]

\* a play() or seekToTime() ends the time in which a callback requested
\* before a reset counts as stale
Unstale(q) == [k \in 1..Len(q) |-> [q[k] EXCEPT !.stale = FALSE]]

\* a restart or track switch makes every waiting callback one that was
\* requested before the reset
MakeStale(q) == [k \in 1..Len(q) |-> [q[k] EXCEPT !.stale = TRUE]]

\* play()
play(s) ==
    LET s1 == AudioPlay(s)
        s2 == [s1 EXCEPT !.playIcon = "pause", !.hasEnded = FALSE,
                         !.rafCallbacks = Unstale(@)]
    IN  startAnimationLoop(s2)

\* pause()
pause(s) ==
    LET s1 == AudioPause(s)
        s2 == [s1 EXCEPT !.playIcon = "play"]
    IN  stopAnimationLoop(s2)

\* a faulty handleAudioEnd: pause() is not called
handleAudioEndWithoutPause(s) ==
    [s EXCEPT !.hasEnded = TRUE, !.endHistory = "ended",
              !.progressFill = 100, !.playIcon = "play"]

\* handleAudioEnd()
handleAudioEnd(s) ==
    LET s1 == [s EXCEPT !.hasEnded = TRUE, !.endHistory = "ended"]
        s2 == pause(s1)
    IN  [s2 EXCEPT !.progressFill = 100, !.playIcon = "play"]

\* requestAnimationFrame(() => this.updateMessages()).  A one-shot requested
\* right after another one is not kept: the two run in the same frame one
\* after the other, and the second then returns at once (at hasEnded or the
\* throttle like the first, or at the throttle because the first made a pass).
RequestOneShot(s) ==
    IF /\ Len(s.rafCallbacks) > 0
       /\ s.rafCallbacks[Len(s.rafCallbacks)].fn = "updateMessages"
    THEN s
    ELSE [s EXCEPT !.rafCallbacks =
                       Append(@, [id |-> FreshId(s), fn |-> "updateMessages",
                                  stale |-> FALSE])]

\* scheduleMessageUpdate(): a one-shot updateMessages unless a loop is active
scheduleMessageUpdate(s) ==
    IF s.animationFrameId = Null THEN RequestOneShot(s) ELSE s

\* a faulty restartConversation: the media time is not set back to 0
restartConversationNoRewind(s) ==
    LET s1 == pause(s)
    IN  [s1 EXCEPT !.hasEnded = FALSE,
                   !.conversationWindow = << >>,
                   !.renderedMessages = {},
                   !.renderedTags = {},
                   !.progressFill = 0,
                   !.tagsContent = << >>,
                   !.tagsContainerOpacity = 0,
                   !.lastMessageElement = Null,
                   !.lastMessageType = NoType,
                   !.playIcon = "play",
                   !.rafCallbacks = MakeStale(@),
                   !.endHistory = IF @ = "none" THEN @ ELSE "restarted"]

\* restartConversation()
restartConversation(s) ==
    LET s1 == pause(s)
        s2 == AudioSetCurrentTime(s1, 0)
    IN  [s2 EXCEPT !.hasEnded = FALSE,
                   !.conversationWindow = << >>,
                   !.renderedMessages = {},
                   !.renderedTags = {},
                   !.progressFill = 0,
                   !.tagsContent = << >>,
                   !.tagsContainerOpacity = 0,
                   !.lastMessageElement = Null,
                   !.lastMessageType = NoType,
                   !.playIcon = "play",
                   !.rafCallbacks = MakeStale(@),
                   !.endHistory = IF @ = "none" THEN @ ELSE "restarted"]

\* a faulty togglePlayPause: in ENDED it plays without the restart
togglePlayPauseNoRestart(s) ==
    IF s.audio.paused THEN play(s) ELSE pause(s)

\* togglePlayPause()
togglePlayPause(s) ==
    IF s.hasEnded THEN play(restartConversation(s))
    ELSE IF s.audio.paused THEN play(s)
    ELSE pause(s)

\* currentTime / duration * 100 as JavaScript computes it
Percent(t, d) ==
    IF d = NaN THEN NaN
    ELSE IF d = 0 THEN (IF t = 0 THEN NaN ELSE Infinity)
    ELSE (t * 100) \div d

\* style.width = `${v}%`: 'NaN%' and 'Infinity%' are no CSS values, the
\* declaration keeps its former value
SetWidth(s, v) ==
    IF v \in {NaN, Infinity} THEN s ELSE [s EXCEPT !.progressFill = v]

\* updateProgress()
updateProgress(s) == SetWidth(s, Percent(s.audio.currentTime, s.duration))

(* ------------------------------------------------------------------ *)
(* ConversaPlay: revealing messages and tags                           *)
(* ------------------------------------------------------------------ *)
\* a faulty createNewMessage: the tracking variables are not updated
createNewMessageWithoutCursor(s, message, index) ==
    [s EXCEPT !.conversationWindow =
                  Append(@, [type |-> message.type,
                             texts |-> << [text |-> message.text,
                                           index |-> index,
                                           hint |-> "block"] >>])]

\* createNewMessage(message, index): a new block, which becomes the cursor.
\* createMessageElement builds the block the same way for playback and seek.
createNewMessage(s, message, index) ==
    [s EXCEPT !.conversationWindow =
                  Append(@, [type |-> message.type,
                             texts |-> << [text |-> message.text,
                                           index |-> index,
                                           hint |-> "block"] >>]),
              !.lastMessageElement = Len(s.conversationWindow) + 1,
              !.lastMessageType = message.type]

\* the text element is inserted after the last text of lastMessageElement; an
\* element that is no longer in the window changes nothing that is shown
AppendText(s, message, index, hint) ==
    IF s.lastMessageElement \in 1..Len(s.conversationWindow)
    THEN [s EXCEPT !.conversationWindow[s.lastMessageElement].texts =
                       Append(@, [text |-> message.text, index |-> index,
                                  hint |-> hint])]
    ELSE s

\* appendToExistingMessage(message, index): with the fade-in transition
appendToExistingMessage(s, message, index) ==
    AppendText(s, message, index, "animated")

\* a faulty appendToExistingMessageForSeek: the text fades in as in playback
appendToExistingMessageForSeekAnimated(s, message, index) ==
    AppendText(s, message, index, "animated")

\* appendToExistingMessageForSeek(message, index): visible at once
appendToExistingMessageForSeek(s, message, index) ==
    AppendText(s, message, index, "direct")

\* a faulty showMessage: the reveal set is replaced by the new index
showMessageForgetting(s, message, index) ==
    LET s1 == IF /\ s.lastMessageElement # Null
                 /\ s.lastMessageType = message.type
              THEN appendToExistingMessage(s, message, index)
              ELSE createNewMessage(s, message, index)
    IN  [s1 EXCEPT !.renderedMessages = {index}]

\* a faulty showMessage: every utterance gets a block of its own
showMessageUngrouped(s, message, index) ==
    [createNewMessage(s, message, index)
        EXCEPT !.renderedMessages = @ \cup {index}]

\* a faulty showMessage: the index is not added to renderedMessages
showMessageUnrecorded(s, message, index) ==
    IF /\ s.lastMessageElement # Null
       /\ s.lastMessageType = message.type
    THEN appendToExistingMessage(s, message, index)
    ELSE createNewMessage(s, message, index)

\* showMessage(message, index)
showMessage(s, message, index) ==
    LET s1 == IF /\ s.lastMessageElement # Null
                 /\ s.lastMessageType = message.type
              THEN appendToExistingMessage(s, message, index)
              ELSE createNewMessage(s, message, index)
    IN  [s1 EXCEPT !.renderedMessages = @ \cup {index}]

\* showMessageForSeek(message, index)
showMessageForSeek(s, message, index) ==
    LET s1 == IF /\ s.lastMessageElement # Null
                 /\ s.lastMessageType = message.type
              THEN appendToExistingMessageForSeek(s, message, index)
              ELSE createNewMessage(s, message, index)
    IN  [s1 EXCEPT !.renderedMessages = @ \cup {index}]

\* showTag(tagData): the badge, and the show-panel timer if exactly one index
\* is in renderedTags at this moment
showTag(s, tagData) ==
    [s EXCEPT !.tagsContent = Append(@, tagData),
              !.panelTimers = IF Cardinality(s.renderedTags) = 1
                              THEN Min(@ + 1, MaxTimers) ELSE @]

\* showTagForSeek(tagData, index)
showTagForSeek(s, tagData, index) ==
    [s EXCEPT !.tagsContent = Append(@, tagData)]

\* updateTags(currentTime): currentTabTriggers.forEach from position i on
RECURSIVE updateTagsFrom(_, _, _)
updateTagsFrom(s, currentTime, i) ==
    IF i > Len(s.currentTabTriggers) THEN s
    ELSE LET trigger == s.currentTabTriggers[i]
             s1 == IF /\ currentTime >= trigger.timestamp
                      /\ i \notin s.renderedTags
                   THEN [showTag(s, trigger.tag)
                            EXCEPT !.renderedTags = @ \cup {i}]
                   ELSE s
         IN  updateTagsFrom(s1, currentTime, i + 1)

updateTags(s, currentTime) == updateTagsFrom(s, currentTime, 1)

\* the conversation.forEach of updateMessages from position i on
RECURSIVE updateMessagesFrom(_, _, _)
updateMessagesFrom(s, currentTime, i) ==
    IF i > Len(s.conversation) THEN s
    ELSE LET message == s.conversation[i]
             s1 == IF /\ currentTime >= message.timestamp
                      /\ i \notin s.renderedMessages
                   THEN showMessage(s, message, i)
                   ELSE s
         IN  updateMessagesFrom(s1, currentTime, i + 1)

\* a faulty updateMessages: the pass is made whatever time has gone by
updateMessagesUnthrottled(s) ==
    IF s.hasEnded THEN s
    ELSE LET s1 == [s EXCEPT !.sinceLastRender = 0]
             s2 == updateMessagesFrom(s1, s1.audio.currentTime, 1)
         IN  updateTags(s2, s1.audio.currentTime)

\* updateMessages(): nothing once ended, nothing within 16 ms of the last pass
updateMessages(s) ==
    IF s.hasEnded THEN s
    ELSE IF s.sinceLastRender < ThrottleMs THEN s
    ELSE LET s1 == [s EXCEPT !.sinceLastRender = 0]
             s2 == updateMessagesFrom(s1, s1.audio.currentTime, 1)
         IN  updateTags(s2, s1.audio.currentTime)

(* ------------------------------------------------------------------ *)
(* ConversaPlay: seeking                                               *)
(* ------------------------------------------------------------------ *)
\* a faulty first part of seekToTime: the reveal sets are not cleared
seekClearKeepingSets(s, time) ==
    LET s1 == AudioSetCurrentTime(s, time)
    IN  [s1 EXCEPT !.hasEnded = FALSE,
                   !.conversationWindow = << >>,
                   !.tagsContent = << >>,
                   !.lastMessageElement = Null,
                   !.lastMessageType = NoType,
                   !.rafCallbacks = Unstale(@),
                   !.endHistory = IF @ = "ended" THEN "sought" ELSE @]

\* a faulty first part of seekToTime: the sampling loop is stopped as well
seekClearStoppingLoop(s, time) ==
    LET s1 == stopAnimationLoop(AudioSetCurrentTime(s, time))
    IN  [s1 EXCEPT !.hasEnded = FALSE,
                   !.conversationWindow = << >>,
                   !.renderedMessages = {},
                   !.renderedTags = {},
                   !.tagsContent = << >>,
                   !.lastMessageElement = Null,
                   !.lastMessageType = NoType,
                   !.rafCallbacks = Unstale(@),
                   !.endHistory = IF @ = "ended" THEN "sought" ELSE @]

\* a faulty first part of seekToTime: the window and the cursor are kept
seekClearKeepingWindow(s, time) ==
    LET s1 == AudioSetCurrentTime(s, time)
    IN  [s1 EXCEPT !.hasEnded = FALSE,
                   !.renderedMessages = {},
                   !.renderedTags = {},
                   !.tagsContent = << >>,
                   !.rafCallbacks = Unstale(@),
                   !.endHistory = IF @ = "ended" THEN "sought" ELSE @]

\* seekToTime, first part: set the media time, clear hasEnded, the window,
\* the reveal sets, the badges and the cursor
seekClear(s, time) ==
    LET s1 == AudioSetCurrentTime(s, time)
    IN  [s1 EXCEPT !.hasEnded = FALSE,
                   !.conversationWindow = << >>,
                   !.renderedMessages = {},
                   !.renderedTags = {},
                   !.tagsContent = << >>,
                   !.lastMessageElement = Null,
                   !.lastMessageType = NoType,
                   !.rafCallbacks = Unstale(@),
                   !.endHistory = IF @ = "ended" THEN "sought" ELSE @]

\* seekToTime, the conversation.forEach from position i on
RECURSIVE seekMessagesFrom(_, _, _)
seekMessagesFrom(s, time, i) ==
    IF i > Len(s.conversation) THEN s
    ELSE LET message == s.conversation[i]
             s1 == IF time >= message.timestamp
                   THEN showMessageForSeek(s, message, i)
                   ELSE s
         IN  seekMessagesFrom(s1, time, i + 1)

\* seekToTime, the currentTabTriggers.forEach from position i on
RECURSIVE seekTagsFrom(_, _, _)
seekTagsFrom(s, time, i) ==
    IF i > Len(s.currentTabTriggers) THEN s
    ELSE LET trigger == s.currentTabTriggers[i]
             s1 == IF time >= trigger.timestamp
                   THEN [showTagForSeek(s, trigger.tag, i)
                            EXCEPT !.renderedTags = @ \cup {i}]
                   ELSE s
         IN  seekTagsFrom(s1, time, i + 1)

\* seekToTime(time).  A NaN time makes the assignment to audio.currentTime
\* throw a TypeError, which ends the handler before anything changed.
seekToTime(s, time) ==
    IF time = NaN THEN s
    ELSE LET s1 == seekClear(s, time)
             s2 == seekMessagesFrom(s1, time, 1)
             s3 == seekTagsFrom(s2, time, 1)
             s4 == IF Cardinality(s3.renderedTags) > 0
                   THEN [s3 EXCEPT !.tagsContainerOpacity = 1] ELSE s3
         IN  updateProgress(s4)

\* percentage = Math.max(0, Math.min(1, clickX / rect.width)), in percent;
\* x is (clickX / rect.width) in percent
Percentage(x) == Clamp(x, 0, 100)

\* percentage * this.duration
PointerTime(x, d) == IF d = NaN THEN NaN ELSE (Percentage(x) * d) \div 100

\* seekToPosition(e)
seekToPosition(s, x) == seekToTime(s, PointerTime(x, s.duration))

\* handleDrag(e): the preview of the progress bar
handleDrag(s, x) == SetWidth(s, Percentage(x))

\* a faulty handleDragEnd: the fraction of the bar is not clamped
handleDragEndUnclamped(s, x) ==
    seekToTime(s, IF s.duration = NaN THEN NaN ELSE (x * s.duration) \div 100)

\* handleDragEnd(e)
handleDragEnd(s, x) == seekToTime(s, PointerTime(x, s.duration))

(* ------------------------------------------------------------------ *)
(* ConversaPlay: track switch and the media listeners                  *)
(* ------------------------------------------------------------------ *)
\* every queued event now comes from a replaced media element
StaleEvents(q) == [k \in 1..Len(q) |-> [q[k] EXCEPT !.stale = TRUE]]

\* a faulty reset: the reveal sets and the progress display are kept
switchClearKeepingSets(s) ==
    [s EXCEPT !.conversationWindow = << >>,
              !.tagsContent = << >>,
              !.tagsContainerOpacity = 0,
              !.lastMessageElement = Null,
              !.lastMessageType = NoType]

\* a faulty reset: the blocks and badges of the previous track stay shown
switchClearKeepingWindow(s) ==
    [s EXCEPT !.renderedMessages = {},
              !.renderedTags = {},
              !.tagsContainerOpacity = 0,
              !.progressFill = 0]

\* switchConversation, the reset of the display and of the tracking state
switchClear(s) ==
    [s EXCEPT !.conversationWindow = << >>,
              !.renderedMessages = {},
              !.renderedTags = {},
              !.tagsContent = << >>,
              !.tagsContainerOpacity = 0,
              !.lastMessageElement = Null,
              !.lastMessageType = NoType,
              !.progressFill = 0]

\* switchConversation(newConversation, newAudioSrc, tabId): the listeners of
\* the replaced element stay registered, and it may still deliver what it
\* queued and the loadedmetadata of a fetch that has not finished
switchConversation(s, newConversation, newAudioSrc, tabId) ==
    LET s1 == pause(s)
        s2 == [s1 EXCEPT !.conversation = newConversation,
                         !.hasEnded = FALSE,
                         !.currentTabTriggers =
                             IF tabId \in DOMAIN tagTriggers
                             THEN tagTriggers[tabId] ELSE tagTriggers.tab1,
                         !.oldLoading = @ \/ s1.audio.readyState = "nothing",
                         !.mediaEvents = StaleEvents(@),
                         !.rafCallbacks = MakeStale(@),
                         !.switches = @ + 1,
                         !.endHistory = "none",
                         !.audio = NewAudio(newAudioSrc)]
    IN  switchClear(s2)

\* the loadedmetadata listener
onLoadedMetadata(s) == [s EXCEPT !.duration = AudioDuration(s.audio)]

\* a faulty timeupdate listener: the end check does not ask for duration > 0
onTimeUpdateAnyDuration(s) ==
    IF s.isDragging THEN s
    ELSE LET s1 == scheduleMessageUpdate(updateProgress(s))
         IN  IF /\ s1.audio.currentTime >= s1.duration - EndEps
                /\ ~s1.hasEnded
             THEN handleAudioEnd(s1)
             ELSE s1

\* the timeupdate listener
onTimeUpdate(s) ==
    IF s.isDragging THEN s
    ELSE LET s1 == scheduleMessageUpdate(updateProgress(s))
         IN  IF /\ s1.audio.currentTime >= s1.duration - EndEps
                /\ s1.duration > 0
                /\ ~s1.hasEnded
             THEN handleAudioEnd(s1)
             ELSE s1

\* the ended listener
onEnded(s) == handleAudioEnd(s)

(* ------------------------------------------------------------------ *)
(* Initial state and steps                                             *)
(* ------------------------------------------------------------------ *)
\* new ConversaPlay(conversations.tab1.conversation, conversations.tab1.audio)
Constructed ==
    /\ conversation = conversations.tab1.conversation
    /\ currentTabTriggers = tagTriggers.tab1
    /\ audio = NewAudio(conversations.tab1.audio)
    /\ renderedMessages = {}
    /\ renderedTags = {}
    /\ isDragging = FALSE
    /\ duration = 0
    /\ sinceLastRender = 0
    /\ animationFrameId = Null
    /\ hasEnded = FALSE
    /\ lastMessageElement = Null
    /\ lastMessageType = NoType
    /\ conversationWindow = << >>
    /\ tagsContent = << >>
    /\ tagsContainerOpacity = 0
    /\ progressFill = 0
    /\ playIcon = "play"
    /\ rafCallbacks = << >>
    /\ mediaEvents = << >>
    /\ panelTimers = 0
    /\ oldLoading = FALSE
    /\ switches = 0
    /\ endHistory = "none"

Init == Constructed /\ recording = FALSE

\* the same program, with the history variable kept
InitRecording == Constructed /\ recording = TRUE

\* Frame ids are only ever compared, so between handlers the waiting
\* callbacks are renumbered by position (an id of no waiting callback becomes
\* MaxRaf + 1): states that differ in the numbers alone are one state.
RenumberedFrames(q) == [k \in 1..Len(q) |-> [q[k] EXCEPT !.id = k]]

RenumberedId(q, id) ==
    IF id = Null THEN Null
    ELSE IF \E k \in 1..Len(q) : q[k].id = id
         THEN CHOOSE k \in 1..Len(q) : q[k].id = id
         ELSE MaxRaf + 1

\* the step of a handler that leaves the state r; the queues stay in bounds
Commit(r) ==
    /\ Len(r.mediaEvents) <= MaxEvents
    /\ Len(r.rafCallbacks) <= MaxRaf
    /\ conversation' = r.conversation
    /\ currentTabTriggers' = r.currentTabTriggers
    /\ audio' = r.audio
    /\ renderedMessages' = r.renderedMessages
    /\ renderedTags' = r.renderedTags
    /\ isDragging' = r.isDragging
    /\ duration' = r.duration
    /\ sinceLastRender' = r.sinceLastRender
    /\ animationFrameId' = RenumberedId(r.rafCallbacks, r.animationFrameId)
    /\ hasEnded' = r.hasEnded
    /\ lastMessageElement' = r.lastMessageElement
    /\ lastMessageType' = r.lastMessageType
    /\ conversationWindow' = r.conversationWindow
    /\ tagsContent' = r.tagsContent
    /\ tagsContainerOpacity' = r.tagsContainerOpacity
    /\ progressFill' = r.progressFill
    /\ playIcon' = r.playIcon
    /\ rafCallbacks' = RenumberedFrames(r.rafCallbacks)
    /\ mediaEvents' = r.mediaEvents
    /\ panelTimers' = r.panelTimers
    /\ oldLoading' = r.oldLoading
    /\ switches' = r.switches
    /\ recording' = recording
    /\ endHistory' = IF recording THEN r.endHistory ELSE "none"

\* pointer positions in percent of the bar: left of the bar, at its middle,
\* right of it
PointerX == {0 - 50, 50, 150}

\* click on #playPauseBtn, or the Space key
ClickPlayPause == Commit(togglePlayPause(St))

\* click on #muteBtn (the restart button), or the R key
ClickRestart == Commit(restartConversation(St))

\* click on #progressBar
ClickProgressBar ==
    /\ ~isDragging
    /\ \E x \in PointerX : Commit(seekToPosition(St, x))

\* mousedown / touchstart on #scrubber
ScrubberDown == Commit([St EXCEPT !.isDragging = TRUE])

\* mousemove / touchmove
PointerMove ==
    /\ isDragging
    /\ \E x \in PointerX : Commit(handleDrag(St, x))

\* mouseup / touchend
PointerUp ==
    /\ isDragging
    /\ \E x \in PointerX :
          Commit(handleDragEnd([St EXCEPT !.isDragging = FALSE], x))

\* click on a .tab-btn
TabClick ==
    /\ switches < MaxSwitches
    /\ \E tabId \in Tabs :
          Commit(switchConversation(St, conversations[tabId].conversation,
                                    conversations[tabId].audio, tabId))

\* the browser dispatches the next queued media event to its listener
DispatchMediaEvent ==
    /\ mediaEvents # << >>
    /\ LET e == Head(mediaEvents)
           s == [St EXCEPT !.mediaEvents = Tail(@)]
       IN  Commit(CASE e.type = "loadedmetadata" -> onLoadedMetadata(s)
                    [] e.type = "timeupdate" -> onTimeUpdate(s)
                    [] e.type = "ended" -> onEnded(s))

\* animate() of startAnimationLoop: a pass, then the request of the next frame
animate(s) ==
    LET s1 == updateMessages(s)
    IN  [s1 EXCEPT !.rafCallbacks =
                       Append(@, [id |-> FreshId(s1), fn |-> "animate",
                                  stale |-> FALSE]),
                   !.animationFrameId = FreshId(s1)]

\* the callbacks cbs[k..] of one frame, run in the order of their requests
RECURSIVE RunCallbacks(_, _, _)
RunCallbacks(s, cbs, k) ==
    IF k > Len(cbs) THEN s
    ELSE RunCallbacks(IF cbs[k].fn = "animate" THEN animate(s)
                      ELSE updateMessages(s),
                      cbs, k + 1)

\* the browser renders a frame: every waiting callback runs, animate() of
\* the sampling loop and the one-shots of scheduleMessageUpdate; what they
\* request waits for the next frame
AnimationFrame ==
    /\ rafCallbacks # << >>
    /\ Commit(RunCallbacks([St EXCEPT !.rafCallbacks = << >>],
                           rafCallbacks, 1))

\* the 300 ms timer of showTag shows the tag panel
PanelTimer ==
    /\ panelTimers > 0
    /\ Commit([St EXCEPT !.panelTimers = @ - 1, !.tagsContainerOpacity = 1])

\* the wall clock advances: 16 ms or more have passed since the last pass
Tick ==
    /\ sinceLastRender < ThrottleMs
    /\ Commit([St EXCEPT !.sinceLastRender = ThrottleMs])

\* the media element of the active track gets its metadata; a start position
\* set before is applied by a seek
MediaLoadedMetadata ==
    /\ audio.readyState = "nothing"
    /\ LET d == MediaDuration(audio.src)
           q == Enqueue(mediaEvents, "loadedmetadata")
       IN  Commit([St EXCEPT !.audio.readyState = "metadata",
                             !.audio.currentTime = Min(@, d),
                             !.mediaEvents =
                                 IF audio.currentTime > 0
                                 THEN Enqueue(q, "timeupdate") ELSE q])

\* the media resource of the active track cannot be loaded
MediaError ==
    /\ audio.readyState = "nothing"
    /\ Commit([St EXCEPT !.audio.readyState = "error"])

\* a replaced media element gets its metadata
OldMediaLoadedMetadata ==
    /\ oldLoading
    /\ Commit([St EXCEPT !.oldLoading = FALSE,
                         !.mediaEvents =
                             Append(@, [type |-> "loadedmetadata",
                                        stale |-> TRUE])])

\* playback advances (by less than, or by, a tenth) and reports timeupdate
MediaAdvance ==
    /\ ~audio.paused
    /\ audio.readyState = "metadata"
    /\ audio.currentTime < MediaDuration(audio.src)
    /\ \E d \in 0..1 :
          Commit([St EXCEPT !.audio.currentTime = @ + d,
                            !.mediaEvents = Enqueue(@, "timeupdate")])

\* playback reaches the end of the resource: paused, timeupdate, ended
MediaEnd ==
    /\ ~audio.paused
    /\ audio.readyState = "metadata"
    /\ audio.currentTime = MediaDuration(audio.src)
    /\ Commit([St EXCEPT !.audio.paused = TRUE,
                         !.mediaEvents =
                             Enqueue(Enqueue(@, "timeupdate"), "ended")])

Next ==
    \/ ClickPlayPause
    \/ ClickRestart
    \/ ClickProgressBar
    \/ ScrubberDown
    \/ PointerMove
    \/ PointerUp
    \/ TabClick
    \/ DispatchMediaEvent
    \/ AnimationFrame
    \/ PanelTimer
    \/ Tick
    \/ MediaLoadedMetadata
    \/ MediaError
    \/ OldMediaLoadedMetadata
    \/ MediaAdvance
    \/ MediaEnd

Spec == Init /\ [][Next]_vars

SpecRecording == InitRecording /\ [][Next]_vars

\* the first click on #playPauseBtn of a session that has not played yet
StartPlayback ==
    /\ audio.paused
    /\ audio.currentTime = 0
    /\ ~hasEnded
    /\ animationFrameId = Null
    /\ ClickPlayPause

\* uninterrupted forward playback: after the one play() only the browser
\* acts (media events, animation frames, timers, the clock, the media)
PlaybackNext ==
    \/ StartPlayback
    \/ DispatchMediaEvent
    \/ AnimationFrame
    \/ PanelTimer
    \/ Tick
    \/ MediaLoadedMetadata
    \/ MediaAdvance
    \/ MediaEnd

\* the event loop is fair: a queued media event is dispatched, waiting frame
\* callbacks and timers run, the clock and the playing media go on
PlaybackFairness ==
    /\ WF_vars(DispatchMediaEvent)
    /\ WF_vars(AnimationFrame)
    /\ WF_vars(PanelTimer)
    /\ WF_vars(Tick)
    /\ WF_vars(MediaLoadedMetadata)
    /\ WF_vars(MediaAdvance)
    /\ WF_vars(MediaEnd)

SpecPlayback == Init /\ [][PlaybackNext]_vars /\ PlaybackFairness

\* a track configuration with a negative and a non-finite timestamp, for a
\* tab without tag triggers of its own
invalidTrack ==
    [conversation |->
         << [type |-> "ai",   text |-> "c1", timestamp |-> 0 - 2],
            [type |-> "user", text |-> "c2", timestamp |-> Infinity] >>,
     audio |-> "tab3"]

\* currentPlayer.switchConversation(...) called with that configuration
SwitchToInvalidTrack ==
    /\ switches < MaxSwitches
    /\ Commit(switchConversation(St, invalidTrack.conversation,
                                  invalidTrack.audio, "tab3"))

\* playback of track 1 and of what such a switch leaves
InvalidSwitchNext == PlaybackNext \/ SwitchToInvalidTrack

SpecInvalidSwitch == Init /\ [][InvalidSwitchNext]_vars

(* ------------------------------------------------------------------ *)
(* Properties                                                          *)
(* ------------------------------------------------------------------ *)
\* the utterances of the active conversation that are due at time t
DueMessages(t) ==
    {i \in 1..Len(conversation) : conversation[i].timestamp <= t}

\* the triggers of the active track that are due at time t
DueTags(t) ==
    {j \in 1..Len(currentTabTriggers) : currentTabTriggers[j].timestamp <= t}

\* no frame callback waits, no media event is undelivered, no drag is going on
StableState ==
    /\ rafCallbacks = << >>
    /\ mediaEvents = << >>
    /\ ~isDragging

\* C1: in every stable state (no loop frame and no one-shot waiting, no
\* undelivered media event, no drag) renderedMessages is exactly the set of
\* the utterances with timestamp <= audio.currentTime.
C1_StableRevealSetIsExact ==
    StableState => renderedMessages = DueMessages(audio.currentTime)

\* a step of seekToTime with a time that is a number: the click on the
\* progress bar or the end of a drag, at pointer position x.  The first
\* conjuncts follow from the last one; they are cheap to evaluate.
SeekStep(x) ==
    /\ PointerTime(x, duration) # NaN
    /\ ~isDragging'
    /\ ~hasEnded'
    /\ UNCHANGED << duration, sinceLastRender, playIcon, animationFrameId >>
    /\ LET r == IF isDragging
                THEN handleDragEnd([St EXCEPT !.isDragging = FALSE], x)
                ELSE seekToPosition(St, x)
       IN  Commit(r)

\* C2: right after seekToTime(t), for every time t (a number) and whatever
\* was revealed before, renderedMessages is the set of the utterances with
\* timestamp <= t and renderedTags the set of the triggers with timestamp <= t.
C2_SeekRebuildsExactly ==
    [][\A x \in PointerX :
          SeekStep(x) =>
              /\ renderedMessages' = DueMessages(PointerTime(x, duration))
              /\ renderedTags' = DueTags(PointerTime(x, duration))]_vars

\* C2, reached: a seek to the middle of track 1 during playback; it left
\* a1 a2 a3 (a2 appended without the transition) and the tags 1 and 3
C2_SeekBackWhilePlaying ==
    /\ ~audio.paused
    /\ audio.src = "tab1"
    /\ audio.currentTime = 2
    /\ renderedMessages = {1, 2, 3}
    /\ renderedTags = {1, 3}
    /\ tagsContent = << "greeting1", "probing1" >>
    /\ Len(conversationWindow) = 2
    /\ conversationWindow[1].texts[2].hint = "direct"
    /\ progressFill = 40

\* C3: a pass of updateMessages (in a frame of the loop or a one-shot) never
\* removes an index: renderedMessages and renderedTags after the frame
\* contain what they held before it.
C3_PassesOnlyAdd ==
    [][AnimationFrame =>
          /\ renderedMessages \subseteq renderedMessages'
          /\ renderedTags \subseteq renderedTags']_vars

\* C3, reached: during playback a pass at time 1 added a2 and the first tag
\* to what an earlier pass had revealed
C3_RevealedByPasses ==
    /\ ~audio.paused
    /\ audio.currentTime = 1
    /\ renderedMessages = {1, 2}
    /\ renderedTags = {1}
    /\ Len(conversationWindow) = 1
    /\ conversationWindow[1].texts[1].hint = "block"
    /\ conversationWindow[1].texts[2].hint = "animated"

\* the utterance indices shown in the window, block after block, text after
\* text: the order in which they were revealed since the last reset
RECURSIVE RevealOrderFrom(_)
RevealOrderFrom(b) ==
    IF b > Len(conversationWindow) THEN << >>
    ELSE [k \in 1..Len(conversationWindow[b].texts) |->
             conversationWindow[b].texts[k].index] \o RevealOrderFrom(b + 1)

RevealOrder == RevealOrderFrom(1)

\* the number of maximal runs of equal speaker type in a list of indices
Runs(order) ==
    IF order = << >> THEN 0
    ELSE 1 + Cardinality({k \in 1..(Len(order) - 1) :
                 conversation[order[k]].type # conversation[order[k + 1]].type})

\* C4: a reveal starts a new block iff no block exists since the last reset
\* or the type of the utterance differs from lastMessageType, else its text
\* goes to the last block.  In every state: the cursor is the last block and
\* lastMessageType its type (null iff there is no block), each block holds
\* texts of its own type only, neighbouring blocks differ in type, and the
\* number of blocks is the number of maximal runs of equal type in reveal
\* order.
C4_BlocksAreMaximalRuns ==
    /\ lastMessageElement = (IF conversationWindow = << >> THEN Null
                              ELSE Len(conversationWindow))
    /\ lastMessageType = (IF conversationWindow = << >> THEN NoType
                           ELSE conversationWindow[Len(conversationWindow)].type)
    /\ \A b \in 1..Len(conversationWindow) :
          /\ conversationWindow[b].texts # << >>
          /\ \A k \in 1..Len(conversationWindow[b].texts) :
                conversation[conversationWindow[b].texts[k].index].type =
                    conversationWindow[b].type
    /\ \A b \in 1..(Len(conversationWindow) - 1) :
          conversationWindow[b].type # conversationWindow[b + 1].type
    /\ Len(conversationWindow) = Runs(RevealOrder)
    /\ {RevealOrder[k] : k \in 1..Len(RevealOrder)} = renderedMessages
    /\ Len(RevealOrder) = Cardinality(renderedMessages)

\* C4, reached: the utterances ai, ai, user, ai of track 1 revealed in this
\* order by playback give three blocks, the first holding two texts
C4_ThreeBlocksForFourUtterances ==
    /\ RevealOrder = << 1, 2, 3, 4 >>
    /\ conversationWindow[1].texts[2].hint = "animated"
    /\ Len(conversationWindow) = 3
    /\ Len(conversationWindow[1].texts) = 2
    /\ Len(conversationWindow[2].texts) = 1
    /\ Len(conversationWindow[3].texts) = 1

\* C5: right after switchConversation, from every state (playing, paused,
\* ended, in a drag, anything revealed): renderedMessages and renderedTags
\* are empty, lastMessageElement and lastMessageType null, the progress
\* display 0%, hasEnded false, the media paused and no sampling loop active.
C5_SwitchResetsEverything ==
    [][TabClick =>
          /\ renderedMessages' = {}
          /\ renderedTags' = {}
          /\ lastMessageElement' = Null
          /\ lastMessageType' = NoType
          /\ conversationWindow' = << >>
          /\ tagsContent' = << >>
          /\ progressFill' = 0
          /\ ~hasEnded'
          /\ audio'.paused
          /\ audio'.currentTime = 0
          /\ animationFrameId' = Null
          /\ \A k \in 1..Len(rafCallbacks') : rafCallbacks'[k].fn # "animate"]_vars

\* C5, reached: track 2 right after a switch away from track 1 while it was
\* playing (the timeupdate of its pause is still queued)
C5_SwitchedWhilePlaying ==
    /\ switches = 1
    /\ audio = NewAudio("tab2")
    /\ conversation = conversations.tab2.conversation
    /\ mediaEvents # << >>
    /\ mediaEvents[Len(mediaEvents)] = [type |-> "timeupdate", stale |-> TRUE]
    /\ duration = MediaDuration("tab1")
    /\ renderedMessages = {}
    /\ progressFill = 0

\* C6: once ENDED (hasEnded set at audio.currentTime >= duration - 0.1, the
\* progress display at 100%), every further timeupdate or ended event of
\* the media leaves renderedMessages, renderedTags, the progress display and
\* hasEnded unchanged.
C6_EndedIgnoresMediaEvents ==
    [][(/\ hasEnded
        /\ duration > 0
        /\ audio.currentTime >= duration - EndEps
        /\ progressFill = 100
        /\ ~isDragging
        /\ mediaEvents # << >>
        /\ ~Head(mediaEvents).stale
        /\ Head(mediaEvents).type \in {"timeupdate", "ended"}
        /\ DispatchMediaEvent) =>
          UNCHANGED << renderedMessages, renderedTags, progressFill,
                       hasEnded >>]_vars

\* a step in which pause() runs: togglePlayPause while playing,
\* restartConversation, switchConversation, or a media event on which
\* handleAudioEnd runs
PauseStep ==
    \/ ClickPlayPause /\ ~hasEnded /\ ~audio.paused
    \/ ClickRestart
    \/ TabClick
    \/ /\ DispatchMediaEvent
       /\ \/ Head(mediaEvents).type = "ended"
          \/ ~hasEnded /\ hasEnded'

\* the animate frames that wait
AnimateFrames(q) == {k \in 1..Len(q) : q[k].fn = "animate"}

\* C7: after pause() - called directly or through handleAudioEnd,
\* restartConversation or switchConversation - animationFrameId is null and
\* no animate frame waits; and an animate frame waits only as the one frame
\* of the active loop, so none requested before a pause runs until play()
\* has started a loop again.
C7_PauseLeavesNoLoop ==
    /\ [](\A k \in AnimateFrames(rafCallbacks) :
             animationFrameId = rafCallbacks[k].id)
    /\ [][PauseStep =>
             /\ animationFrameId' = Null
             /\ AnimateFrames(rafCallbacks') = {}]_vars

\* C7, reached: paused in the middle of track 1 after the loop had revealed
\* utterances; the timeupdate of the pause is queued, no frame waits
C7_PausedAfterPlaying ==
    /\ audio.paused
    /\ audio.currentTime = 2
    /\ ~hasEnded
    /\ playIcon = "play"
    /\ animationFrameId = Null
    /\ rafCallbacks = << >>
    /\ mediaEvents = << [type |-> "timeupdate", stale |-> FALSE] >>
    /\ renderedMessages = {1, 2, 3}
    /\ conversationWindow[1].texts[2].hint = "animated"
    /\ progressFill = 20

\* C8: after restartConversation or switchConversation cleared the state, a
\* frame in which only callbacks requested before the reset run (no play()
\* and no seekToTime() since) reveals nothing: renderedMessages,
\* renderedTags and the cursor stay empty.
C8_StaleCallbacksRevealNothing ==
    [][(/\ rafCallbacks # << >>
        /\ \A k \in 1..Len(rafCallbacks) : rafCallbacks[k].stale
        /\ renderedMessages = {}
        /\ renderedTags = {}
        /\ lastMessageElement = Null
        /\ AnimationFrame) =>
          /\ renderedMessages' = {}
          /\ renderedTags' = {}
          /\ lastMessageElement' = Null]_vars

\* what play() leaves: the pause icon, hasEnded false, the loop active, the
\* media playing unless its resource failed to load
Played ==
    /\ playIcon' = "pause"
    /\ ~hasEnded'
    /\ animationFrameId' # Null
    /\ AnimateFrames(rafCallbacks') # {}
    /\ audio.readyState # "error" => ~audio'.paused

\* C9: togglePlayPause has three outcomes.  In ENDED: restart, then play
\* (media time 0, reveal sets and window reset, hasEnded false, loop
\* active).  Else if the media is paused: play, nothing else changed.  Else:
\* pause (media paused, loop stopped), nothing else changed.
C9_ToggleOutcomes ==
    [][ClickPlayPause =>
          /\ hasEnded =>
                /\ Played
                /\ audio'.currentTime = 0
                /\ renderedMessages' = {}
                /\ renderedTags' = {}
                /\ conversationWindow' = << >>
                /\ lastMessageElement' = Null
                /\ progressFill' = 0
          /\ (~hasEnded /\ audio.paused) =>
                /\ Played
                /\ UNCHANGED << renderedMessages, renderedTags,
                                conversationWindow, lastMessageElement,
                                progressFill >>
          /\ (~hasEnded /\ ~audio.paused) =>
                /\ audio'.paused
                /\ audio'.currentTime = audio.currentTime
                /\ playIcon' = "play"
                /\ animationFrameId' = Null
                /\ AnimateFrames(rafCallbacks') = {}
                /\ UNCHANGED << renderedMessages, renderedTags,
                                conversationWindow, lastMessageElement,
                                progressFill, hasEnded >>]_vars

\* C9, reached: track 1 ended and was restarted; it plays again from time 0
\* with nothing revealed and the loop active
C9_PlayingAgainAfterEnd ==
    /\ endHistory = "restarted"
    /\ audio.src = "tab1"
    /\ ~audio.paused
    /\ audio.currentTime = 0
    /\ ~hasEnded
    /\ animationFrameId # Null
    /\ playIcon = "pause"
    /\ renderedMessages = {}
    /\ renderedTags = {}
    /\ progressFill = 0

\* the session is PLAYING: the media plays and has not ended
Playing == ~audio.paused /\ ~hasEnded

\* C10, as claimed: once ENDED the session is PLAYING again only after
\* restartConversation ran (on a track that ended at some time, PLAYING
\* implies a restart since the last end).
C10_PlayingAfterEndOnlyByRestart ==
    Playing => endHistory \in {"none", "restarted"}

\* C10, amended: ENDED is left only by restartConversation, seekToTime or
\* switchConversation (hasEnded holds exactly while handleAudioEnd ran last
\* on this track), the media is paused while ENDED, and togglePlayPause in
\* ENDED restarts before it plays; so PLAYING follows ENDED only after a
\* restart or a seek.
C10_EndedLeftByRestartSeekOrSwitch ==
    /\ [](hasEnded <=> endHistory = "ended")
    /\ [](hasEnded => audio.paused)
    /\ [][(ClickPlayPause /\ hasEnded) => endHistory' = "restarted"]_vars

\* C10, reached: track 1 ended, a seek to its middle cleared hasEnded, and
\* togglePlayPause resumed playback there without a restart
C10_PlayingAfterSeekFromEnded ==
    /\ Playing
    /\ endHistory = "sought"
    /\ audio.src = "tab1"
    /\ audio.currentTime = 2
    /\ animationFrameId # Null
    /\ renderedMessages = {1, 2, 3}

\* C11: the state after restartConversation is the state after seekToTime(0)
\* with the media paused: the same reveal sets, blocks, badges and cursor
\* (the entries with timestamp 0 shown), hasEnded false, progress 0%, the
\* media paused and no loop.
C11_RestartIsSeekToZero ==
    [][ClickRestart =>
          LET r == seekToTime(pause(St), 0)
          IN  /\ renderedMessages' = r.renderedMessages
              /\ renderedTags' = r.renderedTags
              /\ conversationWindow' = r.conversationWindow
              /\ tagsContent' = r.tagsContent
              /\ lastMessageElement' = r.lastMessageElement
              /\ lastMessageType' = r.lastMessageType
              /\ ~hasEnded'
              /\ progressFill' = 0
              /\ audio'.paused
              /\ animationFrameId' = Null]_vars

\* C12: while a drag is going on (isDragging) the transcript is frozen:
\* no media event and no animation frame changes renderedMessages,
\* renderedTags or the blocks of the window.
C12_DragFreezesTranscript ==
    [][(isDragging /\ (DispatchMediaEvent \/ AnimationFrame)) =>
          UNCHANGED << renderedMessages, renderedTags,
                       conversationWindow >>]_vars

\* the timestamp of the trigger of the active track that shows the badge tag
TagTimestamp(tag) ==
    currentTabTriggers[CHOOSE j \in 1..Len(currentTabTriggers) :
                           currentTabTriggers[j].tag = tag].timestamp

\* what the list new holds after the list old, when old is its beginning
AddedTo(old, new) ==
    IF Len(new) >= Len(old) /\ SubSeq(new, 1, Len(old)) = old
    THEN SubSeq(new, Len(old) + 1, Len(new)) ELSE new

\* the timestamps of the badges in a list of tags never decrease
BadgesAscending(tags) ==
    \A i, j \in 1..Len(tags) :
        i < j => TagTimestamp(tags[i]) <= TagTimestamp(tags[j])

\* the timestamps of the utterances in a list of indices never decrease
TextsAscending(order) ==
    \A i, j \in 1..Len(order) :
        i < j => conversation[order[i]].timestamp <=
                     conversation[order[j]].timestamp

\* C13: within one reveal pass - the pass of updateMessages in a frame, or
\* the rebuild of seekToTime - the utterances, and the tags, are revealed
\* in ascending timestamp order, also when the list is not sorted.
C13_PassRevealsInTimestampOrder ==
    [][/\ (AnimationFrame =>
             /\ TextsAscending(AddedTo(RevealOrder, RevealOrder'))
             /\ BadgesAscending(AddedTo(tagsContent, tagsContent')))
        /\ ((\E x \in PointerX : SeekStep(x)) =>
             /\ TextsAscending(RevealOrder')
             /\ BadgesAscending(tagsContent'))]_vars

\* C14: in uninterrupted forward playback under a fair event loop every
\* utterance and every tag whose timestamp the media time reaches is
\* revealed, the end of the media dropping none: when the session is ENDED
\* the reveal sets hold every index with timestamp <= the media time.
\* (Once ENDED no pass reveals anything, so an index missing then is never
\* revealed.)
C14_EndedHoldsEveryDueEvent ==
    hasEnded =>
        /\ DueMessages(audio.currentTime) \subseteq renderedMessages
        /\ DueTags(audio.currentTime) \subseteq renderedTags

\* C15: whatever the interleaving of loop frames, one-shot passes and seeks,
\* no utterance and no tag is rendered twice between two resets: the texts
\* in the window are as many as renderedMessages has indices, each index
\* once, and the badges as many as renderedTags has indices, each tag once.
C15_NothingRenderedTwice ==
    /\ Len(RevealOrder) = Cardinality(renderedMessages)
    /\ \A i, j \in 1..Len(RevealOrder) :
          RevealOrder[i] = RevealOrder[j] => i = j
    /\ Len(tagsContent) = Cardinality(renderedTags)
    /\ \A i, j \in 1..Len(tagsContent) :
          tagsContent[i] = tagsContent[j] => i = j

\* C15, reached: after a seek to the middle of track 1 (a2 appended without
\* the transition) a one-shot pass and the frame of a loop both wait
C15_OneShotAndLoopAfterSeek ==
    /\ \E k \in 1..Len(rafCallbacks) : rafCallbacks[k].fn = "updateMessages"
    /\ AnimateFrames(rafCallbacks) # {}
    /\ audio.currentTime = 3
    /\ renderedMessages = {1, 2, 3}
    /\ conversationWindow[1].texts[2].hint = "direct"
    /\ tagsContent = << "greeting1", "probing1" >>

\* the block of type type that shows the texts of the list of
\* <<index, hint>> pairs
Block(type, shown) ==
    [type |-> type,
     texts |-> [k \in 1..Len(shown) |->
                   [text |-> conversation[shown[k][1]].text,
                    index |-> shown[k][1], hint |-> shown[k][2]]]]

\* C16: on utterances ai, ai, user at increasing timestamps (the first three
\* of track 1, at 0, 1, 2): a pass at a time in [0, 1) on the empty window
\* reveals only the first (1 block, 1 text); a later pass at a time in
\* [1, 2) reveals only the second, appended with the transition (1 block, 2
\* texts); a seek to time 2 then gives exactly the ai block with 2 texts and
\* the user block with 1 text, and no text of it has the transition.
C16_PassPassSeekScenario ==
    [][conversation = conversations.tab1.conversation =>
          /\ (/\ AnimationFrame
               /\ audio.currentTime = 0
               /\ renderedMessages = {}
               /\ renderedMessages' # {}) =>
                 /\ renderedMessages' = {1}
                 /\ conversationWindow' = << Block("ai", << <<1, "block">> >>) >>
          /\ (/\ AnimationFrame
               /\ audio.currentTime = 1
               /\ renderedMessages = {1}
               /\ renderedMessages' # {1}) =>
                 /\ renderedMessages' = {1, 2}
                 /\ conversationWindow' =
                       << Block("ai", << <<1, conversationWindow[1].texts[1].hint>>,
                                         <<2, "animated">> >>) >>
          /\ (\E x \in PointerX :
                  SeekStep(x) /\ PointerTime(x, duration) = 2) =>
                 /\ renderedMessages' = {1, 2, 3}
                 /\ conversationWindow' =
                       << Block("ai", << <<1, "block">>, <<2, "direct">> >>),
                          Block("user", << <<3, "block">> >>) >>]_vars

\* C16, reached: track 1 paused at time 2 after a seek there: the ai block
\* with a1 and a2 (without the transition) and the user block with a3
C16_TwoBlocksAfterSeek ==
    /\ audio.paused
    /\ audio.currentTime = 2
    /\ animationFrameId = Null
    /\ renderedMessages = {1, 2, 3}
    /\ conversationWindow =
          << Block("ai", << <<1, "block">>, <<2, "direct">> >>),
             Block("user", << <<3, "block">> >>) >>

\* C17: a track switch whose utterance list holds a negative or non-finite
\* timestamp is aborted: the session keeps its conversation, its media, its
\* reveal sets, its cursor and its play state.
C17_InvalidSwitchIsAborted ==
    [][SwitchToInvalidTrack =>
          UNCHANGED << conversation, currentTabTriggers, audio,
                       renderedMessages, renderedTags, conversationWindow,
                       tagsContent, lastMessageElement, lastMessageType,
                       hasEnded, animationFrameId, playIcon >>]_vars

\* a click on the progress bar, or the release of the scrubber, at the
\* pointer position x
PointerSeek(x) ==
    /\ ~isDragging'
    /\ UNCHANGED << duration, sinceLastRender, playIcon, animationFrameId >>
    /\ LET r == IF isDragging
                THEN handleDragEnd([St EXCEPT !.isDragging = FALSE], x)
                ELSE seekToPosition(St, x)
       IN  Commit(r)

\* C18: a seek to any target, also one before 0 or after the duration, never
\* fails and is clamped: the media time and the time the window is rebuilt
\* for both are min(max(target, 0), duration).
C18_SeekClampsTarget ==
    [][\A x \in PointerX :
          PointerSeek(x) =>
              LET t == Clamp((x * duration) \div 100, 0, duration)
              IN  /\ duration # NaN
                  /\ audio'.currentTime = t
                  /\ renderedMessages' = DueMessages(t)
                  /\ renderedTags' = DueTags(t)]_vars

\* C19: when the media resource failed to load, a play request (which the
\* element rejects) leaves the session idle: duration 0, not playing, no
\* sampling loop, no one-shot pass, the play icon shown.
C19_FailedMediaStaysIdle ==
    [][(audio.readyState = "error" /\ ClickPlayPause) =>
          /\ duration' = 0
          /\ audio'.paused
          /\ animationFrameId' = Null
          /\ rafCallbacks' = << >>
          /\ playIcon' = "play"]_vars

\* C20: in forward playback the pass that reveals the first tag after a reset
\* (renderedTags goes from empty to one index) sets the timer that shows the
\* tag panel; the panel does not wait for the second tag.
C20_FirstTagShowsPanel ==
    [][(/\ renderedTags = {}
        /\ Cardinality(renderedTags') = 1
        /\ panelTimers = 0
        /\ AnimationFrame) => panelTimers' = 1]_vars

\* the blocks of a window with their texts, the animated/direct hint left out
WithoutHints(w) ==
    [b \in 1..Len(w) |->
        [type |-> w[b].type,
         texts |-> [k \in 1..Len(w[b].texts) |->
                       [text |-> w[b].texts[k].text,
                        index |-> w[b].texts[k].index]]]]

\* C21: what uninterrupted forward playback from a reset shows once its
\* passes have caught up with the media time t is what seekToTime(t) shows,
\* apart from the hint: the same reveal sets, the same blocks with the same
\* texts, the same sequence of tag badges.
C21_PlaybackShowsWhatSeekShows ==
    (/\ renderedMessages = DueMessages(audio.currentTime)
     /\ renderedTags = DueTags(audio.currentTime)) =>
        LET r == seekToTime(St, audio.currentTime)
        IN  /\ renderedMessages = r.renderedMessages
            /\ renderedTags = r.renderedTags
            /\ WithoutHints(conversationWindow) =
                   WithoutHints(r.conversationWindow)
            /\ tagsContent = r.tagsContent

\* a click on the play/pause button that runs play(): in ENDED (after the
\* restart) or with the media paused
PlayStep ==
    /\ hasEnded \/ audio.paused
    /\ playIcon' = "pause"
    /\ ClickPlayPause

\* C22: play() from any state instructs the media to play (an element that
\* did not fail is no longer paused), clears hasEnded and leaves exactly one
\* sampling loop; also when a loop is already active play() adds no second
\* one, and at no time is more than one animate frame waiting.
C22_PlayLeavesOneLoop ==
    [][/\ Cardinality(AnimateFrames(rafCallbacks')) <= 1
       /\ PlayStep =>
             /\ ~hasEnded'
             /\ audio.readyState # "error" => ~audio'.paused
             /\ animationFrameId' # Null
             /\ \E k \in 1..Len(rafCallbacks') :
                   /\ AnimateFrames(rafCallbacks') = {k}
                   /\ rafCallbacks'[k].id = animationFrameId']_vars

\* C22, reached: play() was called on a media element that failed to load,
\* which stays paused, so that the next click calls play() again with the
\* loop active; the loop ran a pass and one animate frame is waiting
C22_PlayAgainWithLoopActive ==
    /\ audio.readyState = "error"
    /\ audio.paused
    /\ playIcon = "pause"
    /\ renderedMessages = {1}
    /\ animationFrameId # Null
    /\ Cardinality(AnimateFrames(rafCallbacks)) = 1

\* the browser delivers a timeupdate event
TimeUpdateStep ==
    /\ mediaEvents # << >>
    /\ Head(mediaEvents).type = "timeupdate"
    /\ DispatchMediaEvent

\* C23: a timeupdate received while not dragging, with duration > 0,
\* audio.currentTime >= duration - 0.1 and hasEnded false ends the session:
\* hasEnded true, the media paused, the sampling loop stopped, the progress at
\* 100%, the play icon shown.  While duration is 0 a timeupdate never sets
\* hasEnded.
C23_TimeUpdateEndsSession ==
    [][TimeUpdateStep =>
          /\ (/\ ~isDragging
              /\ duration > 0
              /\ audio.currentTime >= duration - EndEps
              /\ ~hasEnded) =>
                 /\ hasEnded'
                 /\ audio'.paused
                 /\ animationFrameId' = Null
                 /\ AnimateFrames(rafCallbacks') = {}
                 /\ progressFill' = 100
                 /\ playIcon' = "play"
          /\ duration = 0 => hasEnded' = hasEnded]_vars

\* C23, reached: track 1 ended by the timeupdate at duration - 0.1, before the
\* media reached its end
C23_EndedBeforeMediaEnd ==
    /\ hasEnded
    /\ audio.src = "tab1"
    /\ duration = MediaDuration("tab1")
    /\ audio.currentTime = duration - EndEps
    /\ audio.paused
    /\ animationFrameId = Null
    /\ progressFill = 100
    /\ playIcon = "play"

\* C24: two passes of updateMessages that get past the throttle are 16 ms or
\* more apart, however often frames and timeupdate events come: a frame run
\* less than 16 ms after the last effective pass changes nothing that a pass
\* writes, and a frame that makes a pass (it sets lastRenderTime) runs 16 ms
\* or more after the last one.
C24_PassesAreSixteenMsApart ==
    [][AnimationFrame =>
          /\ sinceLastRender < ThrottleMs =>
                UNCHANGED << renderedMessages, renderedTags, conversationWindow,
                             tagsContent, lastMessageElement, lastMessageType,
                             panelTimers, tagsContainerOpacity, progressFill,
                             sinceLastRender, hasEnded, audio, duration >>
          /\ (sinceLastRender' # sinceLastRender
                 \/ renderedMessages' # renderedMessages
                 \/ renderedTags' # renderedTags) =>
                /\ sinceLastRender >= ThrottleMs
                /\ sinceLastRender' = 0]_vars

\* C24, reached: during playback of track 1 a pass revealed a1 and a2; less
\* than 16 ms later the media time has reached a3 and only the frame of the
\* loop waits
C24_FrameWithinSixteenMs ==
    /\ sinceLastRender < ThrottleMs
    /\ ~audio.paused
    /\ ~hasEnded
    /\ audio.src = "tab1"
    /\ audio.currentTime = 2
    /\ renderedMessages = {1, 2}
    /\ Cardinality(AnimateFrames(rafCallbacks)) = 1
    /\ mediaEvents = << >>

\* the time at pointer position x: the fraction of the bar, clamped to
\* [0, 1], of duration
ReleasedTime(x) ==
    IF duration = NaN THEN NaN ELSE (Min(Max(x, 0), 100) * duration) \div 100

\* C25: during a drag a pointer move changes the progress preview only (the
\* media time, the reveal sets, the cursor, hasEnded and the play state stay);
\* the release ends the drag and does what one seekToTime at the released
\* position, clamped to the bar, does.
C25_DragPreviewsReleaseSeeks ==
    [][/\ (isDragging /\ isDragging' /\ PointerMove) =>
             /\ progressFill' \in {Min(Max(x, 0), 100) : x \in PointerX}
             /\ UNCHANGED << conversation, currentTabTriggers, audio,
                             renderedMessages, renderedTags, duration,
                             sinceLastRender, animationFrameId, hasEnded,
                             lastMessageElement, lastMessageType,
                             conversationWindow, tagsContent,
                             tagsContainerOpacity, playIcon, rafCallbacks,
                             mediaEvents, panelTimers >>
       /\ (isDragging /\ ~isDragging' /\ PointerUp) =>
             \E x \in PointerX :
                Commit(seekToTime([St EXCEPT !.isDragging = FALSE],
                                  ReleasedTime(x)))]_vars

\* C25, reached: during playback of track 1 the scrubber is held at the right
\* end of the bar; the preview shows 100% while the media is at 1 with a1 and
\* a2 shown
C25_PreviewAheadOfMedia ==
    /\ isDragging
    /\ ~hasEnded
    /\ ~audio.paused
    /\ audio.src = "tab1"
    /\ duration = MediaDuration("tab1")
    /\ audio.currentTime = 1
    /\ renderedMessages = {1, 2}
    /\ progressFill = 100

\* C26: the progress value that updateProgress computes and hands to the
\* progress fill is a percentage within 0..100, in a timeupdate listener run
\* and at the end of a seek, also while duration is 0 and after a switch.
C26_ProgressWithinRange ==
    [][/\ (~isDragging /\ TimeUpdateStep) =>
             Percent(audio.currentTime, duration) \in 0..100
       /\ \A x \in PointerX :
             (ReleasedTime(x) # NaN /\ PointerSeek(x)) =>
                 Percent(audio'.currentTime, duration) \in 0..100]_vars

\* C27: the transcript shows content of the active track only.  Every text
\* in the window is the text of the utterance of the active conversation at
\* an index in renderedMessages, in a block of that utterance's type; every
\* badge is the tag of a trigger of currentTabTriggers at an index in
\* renderedTags.
C27_TranscriptIsOfActiveTrack ==
    /\ renderedMessages \subseteq 1..Len(conversation)
    /\ renderedTags \subseteq 1..Len(currentTabTriggers)
    /\ \A b \in 1..Len(conversationWindow) :
          \A k \in 1..Len(conversationWindow[b].texts) :
             LET shown == conversationWindow[b].texts[k]
             IN  /\ shown.index \in renderedMessages
                 /\ shown.text = conversation[shown.index].text
                 /\ conversationWindow[b].type = conversation[shown.index].type
    /\ \A k \in 1..Len(tagsContent) :
          \E j \in renderedTags : currentTabTriggers[j].tag = tagsContent[k]

\* C27, reached: after a click on the second tab, track 2 was played to its
\* end; the window holds b1 and b2 and the badge of track 2
C27_SecondTrackShown ==
    /\ switches = 1
    /\ conversation = conversations.tab2.conversation
    /\ currentTabTriggers = tagTriggers.tab2
    /\ renderedMessages = {1, 2}
    /\ renderedTags = {1}
    /\ WithoutHints(conversationWindow) =
          << [type |-> "ai", texts |-> << [text |-> "b1", index |-> 1] >>],
             [type |-> "user", texts |-> << [text |-> "b2", index |-> 2] >>] >>
    /\ tagsContent = << "greeting2" >>
    /\ hasEnded

\* a step that calls seekToTime with a time that is a number: the click on
\* the progress bar or the release of the scrubber at pointer position x
SeekCall(x) ==
    /\ ReleasedTime(x) # NaN
    /\ ~isDragging'
    /\ UNCHANGED << conversation, duration, sinceLastRender >>
    /\ LET r == IF isDragging
                THEN handleDragEnd([St EXCEPT !.isDragging = FALSE], x)
                ELSE seekToPosition(St, x)
       IN  Commit(r)

\* C28: seekToTime clears hasEnded and leaves the play state alone: the media
\* is paused after it iff it was before, a sampling loop is active after it
\* iff one was before (with its one frame waiting), and the icon stays.
C28_SeekKeepsPlayState ==
    [][\A x \in PointerX :
          SeekCall(x) =>
              /\ ~hasEnded'
              /\ audio'.paused = audio.paused
              /\ (animationFrameId' = Null) = (animationFrameId = Null)
              /\ Cardinality(AnimateFrames(rafCallbacks')) =
                     Cardinality(AnimateFrames(rafCallbacks))
              /\ playIcon' = playIcon]_vars

\* C28, reached: during playback of track 1 a seek to the end of the bar;
\* the rebuilt window holds all four utterances and the badges in list
\* order, the media still plays and the loop frame waits
C28_SoughtToEndWhilePlaying ==
    /\ ~audio.paused
    /\ ~hasEnded
    /\ playIcon = "pause"
    /\ animationFrameId # Null
    /\ Cardinality(AnimateFrames(rafCallbacks)) = 1
    /\ audio.src = "tab1"
    /\ audio.currentTime = MediaDuration("tab1")
    /\ renderedMessages = {1, 2, 3, 4}
    /\ tagsContent = << "greeting1", "lead-intake1", "probing1" >>

\* C29: the tag panel is visible only while a tag is revealed: whenever the
\* panel is shown, renderedTags is not empty.
C29_PanelShownOnlyWithTags ==
    tagsContainerOpacity = 1 => renderedTags # {}

\* C30: after a track switch an event of the replaced media element (a late
\* timeupdate, ended or loadedmetadata) changes nothing of the new session:
\* duration, hasEnded, the progress and the reveal sets stay.
C30_OldMediaEventsChangeNothing ==
    [][(/\ mediaEvents # << >>
        /\ Head(mediaEvents).stale
        /\ DispatchMediaEvent) =>
          UNCHANGED << duration, hasEnded, progressFill, renderedMessages,
                       renderedTags >>]_vars

\* C31: a track switch leaves the stored duration at 0 until loadedmetadata
\* of the new media, so that a click on the progress bar or a release of the
\* scrubber before the new media has its metadata seeks to 0 and reveals
\* only what is due at 0.
C31_DurationZeroAfterSwitch ==
    [][/\ (switches' = switches + 1 /\ TabClick) => duration' = 0
       /\ \A x \in PointerX :
             (/\ switches > 0
              /\ audio.readyState = "nothing"
              /\ ReleasedTime(x) # NaN
              /\ PointerSeek(x)) =>
                 /\ audio'.currentTime = 0
                 /\ renderedMessages' = DueMessages(0)
                 /\ renderedTags' = DueTags(0)]_vars

\* C32: an ended session is not playing: whenever hasEnded is set, no
\* sampling loop is active (animationFrameId is null, no animate frame
\* waits) and the media is paused.
C32_EndedIsNotPlaying ==
    hasEnded =>
        /\ animationFrameId = Null
        /\ AnimateFrames(rafCallbacks) = {}
        /\ audio.paused

\* C32, reached: track 1 ended with its media at the very end and all four
\* utterances shown; every media event has been delivered
C32_EndedAtMediaEnd ==
    /\ hasEnded
    /\ audio.src = "tab1"
    /\ audio.readyState = "metadata"
    /\ audio.currentTime = MediaDuration("tab1")
    /\ audio.paused
    /\ animationFrameId = Null
    /\ mediaEvents = << >>
    /\ renderedMessages = {1, 2, 3, 4}

\* C33: an ended session is at the end of its media: whenever hasEnded is
\* set, audio.currentTime >= duration - 0.1.  An ended event delivered after
\* a restart, seek or switch moved the media time does not end the session
\* at an earlier time.
C33_EndedOnlyAtTheEnd ==
    hasEnded =>
        /\ duration # NaN
        /\ audio.currentTime >= duration - EndEps

\* C34: the grouping cursor agrees with the reveal set: lastMessageElement
\* and lastMessageType are null exactly when renderedMessages is empty;
\* otherwise lastMessageElement is the last block of the window and
\* lastMessageType the type of the utterance revealed last.
C34_CursorFollowsRevealSet ==
    /\ (lastMessageElement = Null) = (renderedMessages = {})
    /\ (lastMessageType = NoType) = (renderedMessages = {})
    /\ renderedMessages # {} =>
          /\ conversationWindow # << >>
          /\ lastMessageElement = Len(conversationWindow)
          /\ RevealOrder # << >>
          /\ lastMessageType = conversation[RevealOrder[Len(RevealOrder)]].type

\* C34, reached: playback of track 1 revealed a1, a2 (appended to the first
\* block) and a3; the cursor is the second block, of type user
C34_CursorOnUserBlock ==
    /\ audio.src = "tab1"
    /\ renderedMessages = {1, 2, 3}
    /\ Len(conversationWindow) = 2
    /\ conversationWindow[1].texts[2].hint = "animated"
    /\ lastMessageElement = 2
    /\ lastMessageType = "user"

\* a click on the play/pause button that runs play() alone: not ended, the
\* media paused
PlayCall ==
    /\ ~hasEnded
    /\ audio.paused
    /\ playIcon' = "pause"
    /\ ClickPlayPause

\* a click on the play/pause button that runs pause(): not ended, the media
\* not paused
PauseCall ==
    /\ ~hasEnded
    /\ ~audio.paused
    /\ playIcon' = "play"
    /\ ClickPlayPause

\* what neither play() nor pause() writes: the reveal sets, the cursor, the
\* window, the badges and the active track
RevealStateUnchanged ==
    UNCHANGED << renderedMessages, renderedTags, lastMessageElement,
                 lastMessageType, conversationWindow, tagsContent,
                 conversation, currentTabTriggers >>

\* C35: play() and pause() reveal nothing and reset nothing: each leaves the
\* reveal sets, the cursor, the window, the media time and the active track
\* as they were, and pause() leaves hasEnded as well.
C35_PlayPauseKeepTimeAndTranscript ==
    [][/\ PlayCall =>
             /\ RevealStateUnchanged
             /\ audio'.src = audio.src
             /\ audio'.currentTime = audio.currentTime
       /\ PauseCall =>
             /\ RevealStateUnchanged
             /\ audio'.src = audio.src
             /\ audio'.currentTime = audio.currentTime
             /\ hasEnded' = hasEnded]_vars

\* the window that the first n utterances of the active conversation give at
\* time t: those due at t in list order, grouped into blocks by type, the
\* texts after the first of a block placed without transition
RECURSIVE SoughtWindow(_, _)
SoughtWindow(t, n) ==
    IF n = 0 THEN << >>
    ELSE LET w == SoughtWindow(t, n - 1)
             m == conversation[n]
         IN  IF m.timestamp > t THEN w
             ELSE IF w # << >> /\ w[Len(w)].type = m.type
             THEN [w EXCEPT ![Len(w)].texts =
                       Append(@, [text |-> m.text, index |-> n,
                                  hint |-> "direct"])]
             ELSE Append(w, Block(m.type, << << n, "block" >> >>))

\* the badges of the triggers of the active track due at time t, in list order
SoughtBadges(t) ==
    LET due == SelectSeq(currentTabTriggers, LAMBDA tr : tr.timestamp <= t)
    IN  [k \in 1..Len(due) |-> due[k].tag]

\* C36: what seekToTime(t) shows depends on t and the active track only,
\* whatever came before: the blocks and texts, the badges and the cursor are
\* those of the track at t, hasEnded is false and the track stays, so that
\* the same seek once more shows the same.
C36_SeekForgetsHistory ==
    [][\A x \in PointerX :
          SeekCall(x) =>
              LET w == SoughtWindow(ReleasedTime(x), Len(conversation))
              IN  /\ conversationWindow' = w
                  /\ tagsContent' = SoughtBadges(ReleasedTime(x))
                  /\ lastMessageElement' =
                         (IF w = << >> THEN Null ELSE Len(w))
                  /\ lastMessageType' =
                         (IF w = << >> THEN NoType ELSE w[Len(w)].type)
                  /\ ~hasEnded'
                  /\ UNCHANGED currentTabTriggers]_vars

\* C36, reached: track 1 was played until the second badge was revealed (its
\* panel timer still waits), then paused and sought to its middle; the
\* window and the badges are those of time 2
C36_SoughtAfterPlayback ==
    /\ audio.src = "tab1"
    /\ audio.paused
    /\ ~hasEnded
    /\ audio.currentTime = 2
    /\ panelTimers = 1
    /\ conversationWindow = SoughtWindow(2, Len(conversation))
    /\ Len(conversationWindow) = 2
    /\ tagsContent = << "greeting1", "probing1" >>
    /\ lastMessageElement = 2

====
